---- MODULE Spec2Model ----
(***************************************************************************)
(* Model of app.py, a Streamlit image-gallery viewer.  The script is       *)
(* re-executed from top to bottom on every user interaction ("pass"); the  *)
(* only state kept between passes is st.session_state.selected_image and   *)
(* the values of the two sidebar widgets.  Path strings are sequences of   *)
(* one-character strings, compared by code point as Python compares str.   *)
(***************************************************************************)
EXTENDS Integers, Sequences, FiniteSets, TLC

\* ------------------------------------------------------------------ bounds
\* At most this many directory entries exist on disk at the same time.
MaxFiles == 3

\* ----------------------------------------------------------------- strings
\* Python's None (never equal to a path string).
None == << "None" >>

\* ord(c) for the characters used in the modelled path strings.
Ord == [c \in {".", "/", "C", "P", "N", "G", "J", "a", "b", "c", "d", "e", "f",
               "g", "h", "i", "j", "m", "n", "p", "s", "t", "v", "x"} |->
          CASE c = "." -> 46  [] c = "/" -> 47  [] c = "C" -> 67
            [] c = "G" -> 71  [] c = "J" -> 74  [] c = "N" -> 78
            [] c = "P" -> 80  [] c = "a" -> 97  [] c = "b" -> 98
            [] c = "c" -> 99  [] c = "d" -> 100 [] c = "e" -> 101
            [] c = "f" -> 102 [] c = "g" -> 103 [] c = "h" -> 104
            [] c = "i" -> 105 [] c = "j" -> 106 [] c = "m" -> 109
            [] c = "n" -> 110 [] c = "p" -> 112 [] c = "s" -> 115
            [] c = "t" -> 116 [] c = "v" -> 118 [] c = "x" -> 120]

Range(s) == {s[i] : i \in 1..Len(s)}

Min(a, b) == IF a < b THEN a ELSE b

\* s < t for Python str: first differing code point decides, a proper prefix
\* is smaller.
StrLess(s, t) ==
    \E k \in 1..(Min(Len(s), Len(t)) + 1) :
        /\ \A j \in 1..(k - 1) : s[j] = t[j]
        /\ \/ k > Len(s) /\ k <= Len(t)
           \/ k <= Len(s) /\ k <= Len(t) /\ Ord[s[k]] < Ord[t[k]]

EndsWith(s, suf) ==
    /\ Len(s) >= Len(suf)
    /\ SubSeq(s, Len(s) - Len(suf) + 1, Len(s)) = suf

\* os.path.join(a, b) for a relative b.
join(a, b) ==
    IF a = <<>> THEN b
    ELSE IF a[Len(a)] = "/" THEN a \o b
    ELSE a \o <<"/">> \o b

\* Head of os.path.split(p): the part before the last slash, trailing
\* slashes stripped.
RECURSIVE rstrip_slash(_)
rstrip_slash(p) ==
    IF Len(p) > 1 /\ p[Len(p)] = "/" THEN rstrip_slash(SubSeq(p, 1, Len(p) - 1))
    ELSE p

\* ------------------------------------------------------------- file system
\* Kinds of directory entry: a decodable image, a file that does not decode
\* as an image, a dangling symbolic link (listed by the directory scan, but
\* stat() on it fails), or no entry.
Kinds == {"img", "bad", "link"}

DirDot == <<".">>
DirDotSlash == <<".", "/">>
DirSub == <<".", "/", "s">>
\* A root path whose status on disk varies (directory, unreadable directory,
\* plain file, missing).  It never holds entries.
DirVol == <<"/", "v">>
DirEmptyText == <<>>

\* Entry names, in the order the directory scan yields them (os.scandir
\* order is arbitrary; deliberately not sorted).
NameOrder == << <<"c", ".", "g", "i", "f">>,
                <<"n", ".", "t", "x", "t">>,
                <<"b", ".", "j", "p", "g">>,
                <<".", "h", ".", "p", "n", "g">>,
                <<"a", ".", "p", "n", "g">>,
                <<"C", ".", "P", "N", "G">>,
                <<"d", ".", "j", "p", "e", "g">>,
                <<"e", ".", "b", "m", "p">> >>

Names == Range(NameOrder)

\* The physical directories that always exist: "." and its child "./s".
PhysDirs == {DirDot, DirSub}

\* The entries the model lets exist: every name, in "." ("./s" stays empty).
AllPaths == {join(DirDot, n) : n \in Names}

\* Kind of the entry at path p, "none" when there is no such entry.
Entry(d, p) == IF p \in DOMAIN d THEN d[p] ELSE "none"

\* Directory status values of DirVol.
DirStatus == {"dir", "unreadable", "file", "missing"}

\* os.path.isdir(path); vs is the current status of DirVol.
isdir(path, vs) ==
    IF path = None \/ path = <<>> THEN FALSE
    ELSE IF rstrip_slash(path) \in PhysDirs THEN TRUE
    ELSE IF path = DirVol THEN vs \in {"dir", "unreadable"}
    ELSE FALSE

\* ------------------------------------------------------------ Image Lister
Extensions == << <<"p", "n", "g">>, <<"j", "p", "g">>, <<"j", "p", "e", "g">>,
                 <<"b", "m", "p">>, <<"g", "i", "f">> >>

\* fnmatch of an entry name against "*.<ext>" as glob applies it on POSIX:
\* the comparison is case-sensitive and a pattern that does not start with a
\* dot never matches a name that does.
GlobMatch(name, ext) ==
    /\ name[1] # "."
    /\ EndsWith(name, <<".">> \o ext)

\* For each pattern, the names it matches, in directory-scan order.
MatchingNames ==
    [k \in 1..Len(Extensions) |->
        SelectSeq(NameOrder, LAMBDA n : GlobMatch(n, Extensions[k]))]

\* The entries of directory dir among names, each joined to dir.
RECURSIVE SelectNames(_, _, _)
SelectNames(d, dir, names) ==
    IF names = <<>> THEN <<>>
    ELSE LET p == join(dir, names[1])
         IN  (IF Entry(d, p) # "none" THEN <<p>> ELSE <<>>)
             \o SelectNames(d, dir, Tail(names))

\* glob.glob(os.path.join(path, "*.<Extensions[k]>")): the matching entries of the
\* directory, each joined to the pattern's directory part.  An unreadable
\* or vanished directory yields nothing (glob swallows OSError).
glob(d, path, k) ==
    LET dir == rstrip_slash(path)
    IN  IF dir \in PhysDirs THEN SelectNames(d, dir, MatchingNames[k]) ELSE <<>>

RECURSIVE Insert(_, _)
Insert(x, s) ==
    IF s = <<>> THEN <<x>>
    ELSE IF StrLess(x, s[1]) THEN <<x>> \o s
    ELSE <<s[1]>> \o Insert(x, Tail(s))

RECURSIVE sorted(_)
sorted(s) == IF s = <<>> THEN <<>> ELSE Insert(s[Len(s)], sorted(SubSeq(s, 1, Len(s) - 1)))

RECURSIVE ExtendAll(_, _, _)
ExtendAll(d, path, k) ==
    IF k > Len(Extensions) THEN <<>>
    ELSE glob(d, path, k) \o ExtendAll(d, path, k + 1)

get_image_files(d, path, vs) ==
    IF path = None \/ path = <<>> \/ ~isdir(path, vs) THEN <<>>
    ELSE sorted(ExtendAll(d, path, 1))


\* ---------------------------------------------------------------- state
VARIABLES
    disk,            \* file system: path of an entry -> its kind, or "none"
    vstat,           \* status of the root candidate DirVol
    selected_image,  \* st.session_state.selected_image
    root_dir,        \* value of the root path text input
    dir_index,       \* index chosen in the directory selectbox
    pc,              \* "pending": a script run is due (page load, st.rerun())
    last,            \* what the last script run computed
    ui,              \* widgets on screen after the last script run
    listing          \* result of the last stand-alone get_image_files call

vars == <<disk, vstat, selected_image, root_dir, dir_index, pc, last, ui, listing>>

\* ------------------------------------------------ external collaborators
\* Image.open(p) succeeds.
Decodes(d, p) == d[p] = "img"

\* os.path.getsize(p) succeeds (it follows symbolic links).
Sizable(d, p) == d[p] \in {"img", "bad"}

\* st.image(p) completes.  Whether the framework raises on a file that does
\* not decode depends on its version: strict says that it does.
ShowsOk(d, p, strict) == d[p] = "img" \/ ~strict

\* Size in bytes and pixel size of an entry (contents of the disk).
FileSize(p) == 100 * Len(p)

ImgSize(p) == IF EndsWith(p, <<".", "g", "i", "f">>) THEN <<200, 200>> ELSE <<100, 100>>

\* ------------------------------------------------------------ python bits
\* list.index(x), 0-based; -1 stands for ValueError.
index(s, x) ==
    IF x \in Range(s)
    THEN (CHOOSE i \in 1..Len(s) : s[i] = x /\ \A j \in 1..(i - 1) : s[j] # x) - 1
    ELSE -1

\* s[i] for a Python list: negative indices count from the end.
InRange(s, i) == i >= 0 - Len(s) /\ i < Len(s)

PyItem(s, i) == IF i >= 0 THEN s[i + 1] ELSE s[Len(s) + i + 1]

RECURSIVE SumSizes(_)
SumSizes(s) == IF s = <<>> THEN 0 ELSE FileSize(s[1]) + SumSizes(Tail(s))

RECURSIVE Dims(_, _)
Dims(d, s) ==
    IF s = <<>> THEN <<>>
    ELSE (IF Decodes(d, s[1]) THEN <<ImgSize(s[1])>> ELSE <<>>) \o Dims(d, Tail(s))

\* ------------------------------------------------------------------ events
NoEvent == [type |-> "none", path |-> None, n |-> 0]
Ev(t) == [type |-> t, path |-> None, n |-> 0]
EvPath(t, p) == [type |-> t, path |-> p, n |-> 0]
EvDir(k) == [type |-> "dir", path |-> None, n |-> k]

\* reset_gallery_view()
reset_gallery_view == None

\* Variant: the sidebar widgets carry no on_change callback.
AfterCallbacksBackOnly(sel, ev) ==
    IF ev.type = "back" THEN reset_gallery_view ELSE sel

\* Variant: the Back button carries no on_click callback.
AfterCallbacksSidebarOnly(sel, ev) ==
    IF ev.type \in {"root", "dir"} THEN reset_gallery_view ELSE sel

\* Widget callbacks run before the script body: reset_gallery_view is the
\* on_change of both sidebar widgets and the on_click of the Back button.
AfterCallbacks(sel, ev) ==
    IF ev.type \in {"root", "dir", "back"} THEN reset_gallery_view ELSE sel

\* --------------------------------------------------------------- sidebar
\* [f.path for f in os.scandir(root_dir) if f.is_dir()]
subdirectories(root) ==
    IF rstrip_slash(root) = DirDot THEN << join(root, <<"s">>) >> ELSE <<>>

\* What os.scandir(root) finds root to be; vs is DirVol's status then.
StatusOf(root, vs) ==
    IF root = DirVol THEN vs
    ELSE IF rstrip_slash(root) \in PhysDirs /\ root # <<>> THEN "dir"
    ELSE "missing"

SidebarRes(exc, msg, image_dir, n_options, status) ==
    [exc |-> exc, msg |-> msg, image_dir |-> image_dir, n_options |-> n_options,
     status |-> status]

\* vs1 is DirVol's status when os.path.isdir looks, vs2 when os.scandir does.
\* Only FileNotFoundError is caught.
Sidebar(root, idx, vs1, vs2) ==
    LET status == StatusOf(root, vs2)
        options == <<root>> \o subdirectories(root)
    IN  IF ~isdir(root, vs1)
        THEN SidebarRes("none", "invalid_root", None, 0, StatusOf(root, vs1))
        ELSE IF status = "missing"
        THEN SidebarRes("none", "path_not_found", None, 0, status)
        ELSE IF status = "file"
        THEN SidebarRes("NotADirectoryError", "", None, 0, status)
        ELSE IF status = "unreadable"
        THEN SidebarRes("PermissionError", "", None, 0, status)
        ELSE SidebarRes("none", "", options[IF idx < Len(options) THEN idx + 1 ELSE 1],
                        Len(options), status)

\* ------------------------------------------------------- selection rule
\* Variant: the selection is never checked against the list.
ReconcileNever(sel, image_files) == sel

\* if selected_image and selected_image not in image_files: reset
Reconcile(sel, image_files) ==
    IF sel # None /\ sel # <<>> /\ sel \notin Range(image_files)
    THEN reset_gallery_view
    ELSE sel

\* ------------------------------------------------------------ focused view
NoButtons == [prev |-> FALSE, next |-> FALSE, back |-> FALSE, views |-> {}]

\* Python index of the image the Previous / Next button moves to.
PrevTarget(current_index) == current_index - 1

\* Variant: Next skips an image.
NextTargetSkip(current_index) == current_index + 2

NextTarget(current_index) == current_index + 1

\* disabled= of the two navigation buttons
PrevDisabled(current_index) == current_index = 0

NextDisabled(current_index, image_files) == current_index = Len(image_files) - 1

\* A branch outcome: new selection, whether st.rerun() was called, the
\* uncaught exception if any, the buttons left on screen, the inline message,
\* and whether a button's handler consumed the click.
Res(sel, rerun, exc, buttons, msg, current_index, total, handled) ==
    [sel |-> sel, rerun |-> rerun, exc |-> exc, buttons |-> buttons, msg |-> msg,
     current_index |-> current_index, total |-> total, handled |-> handled]

FocusedView(d, image_files, sel, ev, strict) ==
    LET current_index == index(image_files, sel)
        nav == [prev |-> ~PrevDisabled(current_index),
                next |-> ~NextDisabled(current_index, image_files),
                back |-> TRUE, views |-> {}]
    IN  IF current_index = -1
        THEN \* except ValueError: reset and rerun
             Res(reset_gallery_view, TRUE, "none", NoButtons, "not_found", -1, 0, FALSE)
        ELSE IF ~ShowsOk(d, sel, strict)
        THEN Res(sel, FALSE, "ImageError", NoButtons, "", current_index, 0, FALSE)
        ELSE IF ev.type = "prev"
        THEN Res(PyItem(image_files, PrevTarget(current_index)), TRUE, "none",
                 NoButtons, "", current_index, 0, TRUE)
        ELSE IF ev.type = "next"
        THEN IF InRange(image_files, NextTarget(current_index))
             THEN Res(PyItem(image_files, NextTarget(current_index)), TRUE, "none",
                      NoButtons, "", current_index, 0, TRUE)
             ELSE Res(sel, FALSE, "IndexError", [nav EXCEPT !.back = FALSE], "",
                      current_index, 0, TRUE)
        ELSE IF ev.type = "back"
        THEN Res(sel, TRUE, "none", NoButtons, "", current_index, 0, TRUE)
        ELSE Res(sel, FALSE, "none", nav, "", current_index, 0, FALSE)

\* --------------------------------------------------------------- grid view
\* sum(os.path.getsize(f) for f in image_files): -1 stands for the OSError
\* of a file whose size cannot be read.
total_size_bytes(d, image_files) ==
    IF \E i \in 1..Len(image_files) : ~Sizable(d, image_files[i]) THEN -1
    ELSE SumSizes(image_files)

\* First position (1-based) of the grid loop at which st.image raises.
FirstFailing(d, image_files, strict) ==
    IF \E i \in 1..Len(image_files) : ~ShowsOk(d, image_files[i], strict)
    THEN CHOOSE i \in 1..Len(image_files) :
            /\ ~ShowsOk(d, image_files[i], strict)
            /\ \A j \in 1..(i - 1) : ShowsOk(d, image_files[j], strict)
    ELSE Len(image_files) + 1

\* Variant: every View button selects the first image.
ViewTargetFirst(image_files, click) == image_files[1]

\* The image the View button at grid position click selects.
ViewTarget(image_files, click) == image_files[click]

GridView(d, image_files, ev, strict) ==
    LET total == total_size_bytes(d, image_files)
        bad == FirstFailing(d, image_files, strict)
        click == IF ev.type = "view" THEN index(image_files, ev.path) + 1 ELSE 0
    IN  IF total = -1
        THEN Res(None, FALSE, "FileNotFoundError", NoButtons, "", -1, -1, FALSE)
        ELSE IF click >= 1 /\ click < bad
        THEN \* the View button of image_files[click] reports the click
             Res(ViewTarget(image_files, click), TRUE, "none", NoButtons, "", -1,
                 total, TRUE)
        ELSE IF bad <= Len(image_files)
        THEN Res(None, FALSE, "ImageError",
                 [NoButtons EXCEPT !.views = {image_files[j] : j \in 1..(bad - 1)}],
                 "", -1, total, FALSE)
        ELSE Res(None, FALSE, "none", [NoButtons EXCEPT !.views = Range(image_files)],
                 "", -1, total, FALSE)

\* ------------------------------------------------------------ analysis tab
\* pd.DataFrame(image_dims, columns=[...], index=[one label per listed file])
\* raises ValueError unless there is one row per index label.
DataFrameOk(image_dims, image_files) == Len(image_dims) = Len(image_files)

AnalysisTab(d, image_files) ==
    LET image_dims == Dims(d, image_files)
        warnings == {image_files[i] : i \in {j \in 1..Len(image_files) :
                                                ~Decodes(d, image_files[j])}}
    IN  IF image_files = <<>>
        THEN [exc |-> "none", image_dims |-> <<>>, warnings |-> {}, rows |-> 0]
        ELSE IF image_dims = <<>>
        THEN [exc |-> "none", image_dims |-> <<>>, warnings |-> warnings, rows |-> 0]
        ELSE IF ~DataFrameOk(image_dims, image_files)
        THEN [exc |-> "ValueError", image_dims |-> image_dims, warnings |-> warnings,
              rows |-> 0]
        ELSE [exc |-> "none", image_dims |-> image_dims, warnings |-> warnings,
              rows |-> Len(image_dims)]

\* ---------------------------------------------------------- one script run
\* What a script run leaves behind, given the outcome tab1 of the gallery tab
\* and the outcome at of the analysis tab (which runs only if the gallery
\* tab neither raised nor called st.rerun()).
Outcome(d, sel0, sb, image_files, sel2, branch, tab1, at, ev) ==
    [sel |-> tab1.sel,
     rerun |-> tab1.rerun,
     ui |-> [prev |-> tab1.buttons.prev, next |-> tab1.buttons.next,
             back |-> tab1.buttons.back, views |-> tab1.buttons.views,
             n_options |-> sb.n_options],
     last |-> [ev |-> ev,
               sel_before |-> sel0,
               image_dir |-> sb.image_dir,
               image_files |-> image_files,
               sel_branch |-> sel2,
               branch |-> branch,
               current_index |-> tab1.current_index,
               total |-> tab1.total,
               image_dims |-> at.image_dims,
               warnings |-> at.warnings,
               msgs |-> (IF sb.msg # "" THEN {sb.msg} ELSE {})
                          \cup (IF tab1.msg # "" THEN {tab1.msg} ELSE {}),
               rerun |-> tab1.rerun,
               handled |-> tab1.handled,
               root_status |-> sb.status,
               undecodable |-> {p \in Range(image_files) : ~Decodes(d, p)},
               unsizable |-> {p \in Range(image_files) : ~Sizable(d, p)},
               exc |-> IF tab1.exc # "none" THEN tab1.exc ELSE at.exc]]

NoAnalysis == [exc |-> "none", image_dims |-> <<>>, warnings |-> {}, rows |-> 0]

\* with tab2:
Tab2(d, sel0, sb, image_files, sel2, branch, tab1, ev) ==
    Outcome(d, sel0, sb, image_files, sel2, branch, tab1,
            IF tab1.exc = "none" /\ ~tab1.rerun THEN AnalysisTab(d, image_files)
            ELSE NoAnalysis,
            ev)

\* with tab1: nothing to show, the focused view or the grid view.
Tab1(d, sel0, sel1, sb, image_files, sel2, branch, ev, strict) ==
    Tab2(d, sel0, sb, image_files, sel2, branch,
         CASE branch = "none" ->
                Res(sel1, FALSE, sb.exc, NoButtons, "", -1, 0, FALSE)
           [] branch = "empty" ->
                Res(sel2, FALSE, "none", NoButtons, "no_images", -1, 0, FALSE)
           [] branch = "focused" -> FocusedView(d, image_files, sel2, ev, strict)
           [] branch = "grid" -> GridView(d, image_files, ev, strict),
         ev)

\* The choice between the views, made on the reconciled selection sel2.
Branch(sb, image_files, sel2) ==
    IF sb.exc # "none" THEN "none"
    ELSE IF image_files = <<>> THEN "empty"
    ELSE IF sel2 # None THEN "focused"
    ELSE "grid"

\* The main part of the script: list, reconcile, then the two tabs.
Reconciled(d, sel0, sel1, sb, image_files, sel2, ev, strict) ==
    Tab1(d, sel0, sel1, sb, image_files, sel2, Branch(sb, image_files, sel2), ev, strict)

Listed(d, sel0, sel1, sb, image_files, ev, strict) ==
    Reconciled(d, sel0, sel1, sb, image_files, Reconcile(sel1, image_files), ev, strict)

MainApp(d, vs2, sel0, sel1, sb, ev, strict) ==
    Listed(d, sel0, sel1, sb,
           IF sb.exc # "none" THEN <<>> ELSE get_image_files(d, sb.image_dir, vs2),
           ev, strict)

\* One execution of the script, top to bottom, on the event ev: callbacks,
\* sidebar, listing, reconcile, gallery tab, analysis tab.  An uncaught
\* exception or st.rerun() ends the run where it happens.
Pass(d, vs1, vs2, sel0, root, idx, ev, strict) ==
    MainApp(d, vs2, sel0, AfterCallbacks(sel0, ev), Sidebar(root, idx, vs1, vs2),
            ev, strict)

\* ------------------------------------------------------------ initial state
\* Entries and root texts the navigation model uses.
NavPaths == { join(DirDot, <<"a", ".", "p", "n", "g">>),
              join(DirDot, <<"b", ".", "j", "p", "g">>),
              join(DirDot, <<"c", ".", "g", "i", "f">>) }

KindsOf(p) ==
    IF p = join(DirDot, <<"a", ".", "p", "n", "g">>) THEN {"img", "bad", "link"}
    ELSE {"img"}

RootTexts == {DirDot, DirDotSlash, DirVol, DirEmptyText}

NoPass == [ev |-> NoEvent, sel_before |-> None, image_dir |-> None,
           image_files |-> <<>>, sel_branch |-> None, branch |-> "init",
           current_index |-> -1, total |-> 0, image_dims |-> <<>>,
           warnings |-> {}, msgs |-> {}, rerun |-> FALSE, handled |-> FALSE,
           root_status |-> "dir", undecodable |-> {}, unsizable |-> {},
           exc |-> "none"]

NoListing == [called |-> FALSE, path |-> None, files |-> <<>>]

\* The page has just been opened: session state initialised (selected_image
\* is None), the text input holds its default ".", the first run is due.
Init ==
    /\ disk = [p \in AllPaths |-> "none"]
    /\ vstat = "missing"
    /\ selected_image = None
    /\ root_dir = DirDot
    /\ dir_index = 0
    /\ pc = "pending"
    /\ last = NoPass
    /\ ui = [prev |-> FALSE, next |-> FALSE, back |-> FALSE, views |-> {}, n_options |-> 0]
    /\ listing = NoListing

\* ------------------------------------------------------------------ actions
\* The framework's behaviour on undecodable files shows only when one exists.
StrictChoices(d) ==
    IF \A p \in DOMAIN d : d[p] \in {"none", "img"} THEN {TRUE} ELSE BOOLEAN

RunPass(ev, root, idx) ==
    \E strict \in StrictChoices(disk) :
      \E vs2 \in (IF root = DirVol THEN DirStatus ELSE {vstat}) :
        LET r == Pass(disk, vstat, vs2, selected_image, root, idx, ev, strict)
        IN  /\ selected_image' = r.sel
            /\ pc' = IF r.rerun THEN "pending" ELSE "idle"
            /\ last' = r.last
            /\ ui' = r.ui
            /\ vstat' = vs2
            /\ root_dir' = root
            /\ dir_index' = idx
            /\ UNCHANGED <<disk, listing>>

\* The run that follows page load or st.rerun().
Rerun ==
    /\ pc = "pending"
    /\ RunPass(NoEvent, root_dir, dir_index)

\* A run without a widget event (browser refresh).
Refresh ==
    /\ pc = "idle"
    /\ RunPass(NoEvent, root_dir, dir_index)

\* The user clicks a button that the last run put on screen; the click is
\* delivered to the next run, which rebuilds everything from the disk as it
\* is then.
ClickView(p) ==
    /\ pc = "idle"
    /\ p \in ui.views
    /\ RunPass(EvPath("view", p), root_dir, dir_index)

ClickPrevious ==
    /\ pc = "idle"
    /\ ui.prev
    /\ RunPass(Ev("prev"), root_dir, dir_index)

ClickNext ==
    /\ pc = "idle"
    /\ ui.next
    /\ RunPass(Ev("next"), root_dir, dir_index)

ClickBack ==
    /\ pc = "idle"
    /\ ui.back
    /\ RunPass(Ev("back"), root_dir, dir_index)

\* The user edits the root path text; the selectbox is built anew.
ChangeRootDir(r) ==
    /\ pc = "idle"
    /\ r # root_dir
    /\ RunPass(EvPath("root", r), r, 0)

\* The user picks another entry of the directory selectbox.
ChangeImageDir(k) ==
    /\ pc = "idle"
    /\ k < ui.n_options
    /\ k # dir_index
    /\ RunPass(EvDir(k), root_dir, k)

\* The environment creates, replaces or removes a directory entry.
SetEntry(p, k) ==
    /\ k # disk[p]
    /\ k = "none" \/ disk[p] # "none"
         \/ Cardinality({q \in AllPaths : disk[q] # "none"}) < MaxFiles
    /\ disk' = [disk EXCEPT ![p] = k]
    /\ UNCHANGED <<vstat, selected_image, root_dir, dir_index, pc, last, ui, listing>>

\* The environment changes what DirVol is (observable only while DirVol is
\* the root path).
SetVol(s) ==
    /\ root_dir = DirVol
    /\ s # vstat
    /\ vstat' = s
    /\ UNCHANGED <<disk, selected_image, root_dir, dir_index, pc, last, ui, listing>>

Next ==
    \/ Rerun
    \/ Refresh
    \/ \E p \in NavPaths : ClickView(p)
    \/ ClickPrevious
    \/ ClickNext
    \/ ClickBack
    \/ \E r \in RootTexts : ChangeRootDir(r)
    \/ \E k \in 0..1 : ChangeImageDir(k)
    \/ \E p \in NavPaths : \E k \in KindsOf(p) \cup {"none"} : SetEntry(p, k)
    \/ \E s \in DirStatus : SetVol(s)

Spec == Init /\ [][Next]_vars

\* ----------------------------------------- the Image Lister on its own
ListerInputs == {DirDot, DirDotSlash, DirSub, DirVol, DirEmptyText, None}

\* Up to MaxFiles plain files in "."; DirVol in any status.
InitLister ==
    /\ disk \in {f \in [AllPaths -> {"none", "img"}] :
                    Cardinality({p \in AllPaths : f[p] # "none"}) <= MaxFiles}
    /\ vstat \in DirStatus
    /\ selected_image = None
    /\ root_dir = DirDot
    /\ dir_index = 0
    /\ pc = "pending"
    /\ last = NoPass
    /\ ui = [prev |-> FALSE, next |-> FALSE, back |-> FALSE, views |-> {}, n_options |-> 0]
    /\ listing = NoListing

ListDir(path) ==
    /\ listing' = [called |-> TRUE, path |-> path,
                   files |-> get_image_files(disk, path, vstat)]
    /\ UNCHANGED <<disk, vstat, selected_image, root_dir, dir_index, pc, last, ui>>

NextLister == \E path \in ListerInputs : ListDir(path)

SpecLister == InitLister /\ [][NextLister]_vars


\* ================================================================== claims
\* files[i] with Python's 0-based index i.
ItemAt(files, i) == files[i + 1]

\* The last script run got as far as choosing between the views.
ReachedBranch == last.branch \in {"empty", "focused", "grid"}

\* ------------------------------------------------------------------- C1
\* C1: in every script run, at the point where it chooses between grid view
\* and focused view, the selection is None or an element of the image list
\* built by that same run; a selection that is not in the rebuilt list has
\* been cleared (state Gallery) before anything is rendered.
C1_SelectionInList ==
    ReachedBranch =>
        /\ last.sel_branch = None \/ last.sel_branch \in Range(last.image_files)
        /\ last.branch = "focused" => last.sel_branch \in Range(last.image_files)
        /\ last.sel_before \notin Range(last.image_files) =>
              last.sel_branch = None /\ last.branch # "focused"

\* A run without widget event found the selected file gone from a non-empty
\* list and showed the grid.
C1_Witness ==
    /\ last.ev.type = "none"
    /\ last.sel_before # None
    /\ last.sel_before \notin Range(last.image_files)
    /\ last.branch = "grid"
    /\ last.sel_branch = None

\* ------------------------------------------------------------------- C2
\* C2: when the Next button's handler runs in a script run that is in
\* Focused(i) over its own list of length L, the selection becomes list[i+1]
\* if i+1 < L and stays unchanged if i = L-1; it is always an element of the
\* list (no wrap-around).  A run that renders the focused view at the last
\* index offers no Next (the button is disabled).
C2_Next ==
    /\ (last.ev.type = "next" /\ last.handled) =>
          LET i == last.current_index
              L == Len(last.image_files)
          IN  /\ last.branch = "focused"
              /\ ItemAt(last.image_files, i) = last.sel_branch
              /\ i + 1 < L => selected_image = ItemAt(last.image_files, i + 1)
              /\ i = L - 1 => selected_image = last.sel_branch
              /\ selected_image \in Range(last.image_files)
    /\ (last.branch = "focused" /\ ui.back) =>
          (ui.next <=> last.current_index + 1 < Len(last.image_files))

\* Next was handled at Focused(1) over three images and led to Focused(2).
C2_Witness ==
    /\ last.ev.type = "next"
    /\ last.handled
    /\ last.current_index = 1
    /\ Len(last.image_files) = 3
    /\ selected_image = last.image_files[3]

\* ------------------------------------------------------------------- C3
\* C3 (as claimed): when the Previous button's handler runs in Focused(i),
\* the selection becomes list[i-1] if i-1 >= 0 and stays unchanged at i = 0;
\* it never wraps to the last element.
C3_Previous ==
    (last.ev.type = "prev" /\ last.handled) =>
        LET i == last.current_index
        IN  /\ i >= 1 => selected_image = ItemAt(last.image_files, i - 1)
            /\ i = 0 => selected_image = last.sel_branch

\* ------------------------------------------------------------------- C4
\* C4 (amended): a script run triggered by a change of the root path text or
\* of the directory selectbox always ends in Gallery: the on_change callback
\* clears the selection before the list is rebuilt, whether or not the
\* previously selected path is an element of the new list.
C4_DirChangeResets ==
    last.ev.type \in {"root", "dir"} =>
        /\ selected_image = None
        /\ last.sel_branch = None
        /\ last.branch # "focused"

\* The root text changed while the selected path stayed in the rebuilt list.
C4_Witness ==
    /\ last.ev.type = "root"
    /\ last.sel_before # None
    /\ last.sel_before \in Range(last.image_files)
    /\ selected_image = None

\* C4 (as claimed): on a directory change the focus is preserved when the
\* previously selected path is still an element of the newly built list, and
\* the state is Gallery otherwise.
C4_Original ==
    (last.ev.type \in {"root", "dir"} /\ ReachedBranch) =>
        IF last.sel_before # None /\ last.sel_before \in Range(last.image_files)
        THEN last.sel_branch = last.sel_before /\ last.branch = "focused"
        ELSE last.sel_branch = None

\* ------------------------------------------------------------------- C5
Lower(c) ==
    CASE c = "C" -> "c" [] c = "P" -> "p" [] c = "N" -> "n" [] c = "G" -> "g"
      [] c = "J" -> "j" [] OTHER -> c

LowerStr(s) == [i \in 1..Len(s) |-> Lower(s[i])]

\* The name has a recognized image extension, compared case-insensitively
\* (the extension is what follows the last dot of a name with a stem).
HasImageExtension(n) ==
    \E k \in 1..Len(Extensions) :
        /\ Len(n) > Len(Extensions[k]) + 1
        /\ EndsWith(LowerStr(n), <<".">> \o Extensions[k])

\* C5 (as claimed): for a directory, get_image_files returns exactly the
\* entries with a recognized image extension (case-insensitive), each once,
\* sorted ascending by path string.
C5_ListerExact ==
    (listing.called /\ isdir(listing.path, vstat)) =>
        LET dir == rstrip_slash(listing.path)
            files == listing.files
        IN  /\ Range(files) = {join(dir, n) : n \in {m \in Names :
                                  /\ Entry(disk, join(dir, m)) # "none"
                                  /\ HasImageExtension(m)}}
            /\ \A i \in 1..Len(files) : \A j \in 1..Len(files) :
                  i < j => StrLess(files[i], files[j])

\* ------------------------------------------------------------------- C6
\* C6 (as claimed): a script run that lists some files that decode and some
\* that do not completes without an uncaught exception.
C6_UndecodableSkipped ==
    (/\ ReachedBranch
     /\ last.undecodable # {}
     /\ last.undecodable # Range(last.image_files)) =>
        last.exc = "none"

\* ------------------------------------------------------------------- C7
RECURSIVE SumReadable(_, _)
SumReadable(files, unread) ==
    IF files = <<>> THEN 0
    ELSE (IF files[1] \in unread THEN 0 ELSE FileSize(files[1]))
           + SumReadable(Tail(files), unread)

\* C7 (as claimed): the total size computed in the grid view is the sum of
\* the sizes of the listed files whose size can be read; a file whose size
\* cannot be read is skipped and does not abort the run.
C7_TotalSkipsUnreadable ==
    last.branch = "grid" =>
        /\ last.total = SumReadable(last.image_files, last.unsizable)
        /\ last.exc # "FileNotFoundError"

\* ------------------------------------------------------------------- C8
\* C8 (as claimed): when the root path is empty, missing, not a directory or
\* not a readable directory when the script looks at it, no exception
\* escapes: the run continues with an empty image list in Gallery and
\* reports the problem as an inline message.
C8_InvalidPathTolerated ==
    (last.branch # "init" /\ last.root_status # "dir") =>
        /\ last.exc = "none"
        /\ last.image_files = <<>>
        /\ last.branch = "empty"
        /\ selected_image = None
        /\ last.msgs \cap {"invalid_root", "path_not_found"} # {}

\* ------------------------------------------------------------------- C9
\* C9: the initial state is Gallery.  View buttons are on screen only after a
\* run that showed the grid of a non-empty list with no selection.  When a
\* View button's handler runs, the selection becomes exactly that button's
\* path, an element of the list, at the index of the path.  A run without
\* widget event that finds the selection in its rebuilt list shows the
\* focused view at the index of the selection.
C9_Select ==
    /\ last.branch = "init" => selected_image = None
    /\ ui.views # {} =>
          /\ last.branch = "grid"
          /\ selected_image = None
          /\ last.image_files # <<>>
          /\ ui.views \subseteq Range(last.image_files)
    /\ (last.ev.type = "view" /\ last.handled) =>
          /\ last.sel_before = None
          /\ last.branch = "grid"
          /\ selected_image = last.ev.path
          /\ selected_image \in Range(last.image_files)
          /\ pc = "pending"
    /\ (last.ev.type = "none" /\ last.sel_before # None
          /\ last.sel_before \in Range(last.image_files)) =>
          /\ last.branch = "focused"
          /\ last.sel_branch = last.sel_before
          /\ ItemAt(last.image_files, last.current_index) = last.sel_before

\* The second of two images was selected in the grid and the run after the
\* click shows it focused.
C9_Witness ==
    /\ last.ev.type = "none"
    /\ last.branch = "focused"
    /\ last.current_index = 1
    /\ Len(last.image_files) = 2
    /\ selected_image = last.image_files[2]
    /\ ui.back

\* ------------------------------------------------------------------ C10
\* C10: a click on Back leads to Gallery from every Focused(i): after the run
\* that handles it the selection is None and the run did not show the
\* focused view; it showed the grid whenever its list was not empty.
C10_Back ==
    last.ev.type = "back" =>
        /\ selected_image = None
        /\ last.sel_branch = None
        /\ last.branch \in {"grid", "empty"}
        /\ last.image_files # <<>> => last.branch = "grid"

\* Back was clicked in Focused(1) and the grid is shown.
C10_Witness ==
    /\ last.ev.type = "back"
    /\ last.sel_before # None
    /\ index(last.image_files, last.sel_before) = 1
    /\ last.branch = "grid"
    /\ selected_image = None

====
